---- MODULE Spec2Model ----
(***************************************************************************)
(* A model of smallsh (src/smallsh.c): the main loop, the command parser   *)
(* with its "$$" expansion, the table of child pids, the external-command  *)
(* protocol, the two signal handlers and the zombie reaper.                *)
(*                                                                         *)
(* A string is a sequence of one-character strings; the C terminator is    *)
(* implicit after the last element.  The raw status that waitpid() stores  *)
(* is kept in its Linux encoding: code * 256 for a normal exit, the signal *)
(* number for a death by signal.                                           *)
(***************************************************************************)
EXTENDS Integers, Sequences, FiniteSets, TLC

(***************************************************************************)
(* Bounds of the model.                                                    *)
(***************************************************************************)
\* smallsh.h defines MAX_CHILDREN as 10 and MAX_ARGS as 512; the model keeps
\* the names and scales both tables down.
MAX_CHILDREN == 2
MAX_ARGS == 4
\* children the shell may create in one run; fork() fails beyond it
MaxPid == 3
\* longest token handed to ExpandPID on its own
MaxTokLen == 6
MaxNotices == 1

(***************************************************************************)
(* Program constants.                                                      *)
(***************************************************************************)
EXIT_SUCCESS == 0
EXIT_FAILURE == 1
SIGINT == 2
SIGTERM == 15

NUL == "NUL"
\* a byte read from beyond an allocation that happens not to be zero
JUNK == "?"
NULL == <<>>

PID_VAR == <<"$", "$">>
INPUT == <<"<">>
OUTPUT == <<">">>
BACKGROUND == <<"&">>
COMMENT == <<"#">>
COMMENT_LEN == 1
CD_CMD == <<"c", "d">>
CD_LEN == 3
EXIT_CMD == <<"e", "x", "i", "t">>
EXIT_LEN == 5
STATUS_CMD == <<"s", "t", "a", "t", "u", "s">>
STATUS_LEN == 7
DEV_NULL == <<"/", "d", "e", "v", "/", "n", "u", "l", "l">>

(***************************************************************************)
(* wait(2) status macros.                                                  *)
(***************************************************************************)
ExitedRaw(code) == code * 256
SignaledRaw(sig) == sig
WTERMSIG(st) == st % 128
WIFEXITED(st) == IF WTERMSIG(st) = 0 THEN 1 ELSE 0
WIFSIGNALED(st) == WTERMSIG(st) # 0 /\ WTERMSIG(st) # 127
WEXITSTATUS(st) == (st \div 256) % 256

(***************************************************************************)
(* C strings.                                                              *)
(***************************************************************************)
Ch(s, i) == IF i <= Len(s) THEN s[i] ELSE NUL

\* strncmp( s, t, n ) == 0
StrncmpEq(s, t, n) ==
    \A i \in 1..n :
        (\A j \in 1..(i - 1) : Ch(s, j) # NUL) => Ch(s, i) = Ch(t, i)

(***************************************************************************)
(* ExpandPID.  The loop copies the argument into a zero-filled buffer of   *)
(* ( n / 2 ) * pidLen + 1 bytes, appending the pid string for every "$$".  *)
(***************************************************************************)
RECURSIVE ExpandLoop(_, _, _, _)
ExpandLoop(arg, argIdx, newArg, pid) ==
    IF argIdx > Len(arg)
    THEN newArg
    ELSE IF arg[argIdx] = "$" /\ Ch(arg, argIdx + 1) = "$"
         THEN ExpandLoop(arg, argIdx + 2, newArg \o pid, pid)
         ELSE ExpandLoop(arg, argIdx + 1, Append(newArg, arg[argIdx]), pid)

AllocSize(arg, pid) == (Len(arg) \div 2) * Len(pid) + 1

\* str: the characters the loop wrote, in order; size: the bytes calloc gave.
ExpandPID(arg, pid) ==
    [str |-> ExpandLoop(arg, 1, <<>>, pid), size |-> AllocSize(arg, pid)]

\* The terminator of the result lies inside the allocation.
Terminated(e) == Len(e.str) + 1 <= e.size

\* What a reader of the returned pointer can see.  When the terminator would
\* lie outside the allocation the byte found there is whatever the heap
\* holds: zero, and the string ends, or not, and the string runs on.
Readings(e) ==
    IF Terminated(e) THEN {e.str} ELSE {e.str, e.str \o <<JUNK>>}

(***************************************************************************)
(* ParseCommand.                                                           *)
(***************************************************************************)
EmptyCmd ==
    [args |-> <<>>, input |-> NULL, output |-> NULL,
     isRedirectInput |-> FALSE, isRedirectOutput |-> FALSE,
     isBackground |-> FALSE]

Min(a, b) == IF a < b THEN a ELSE b

\* The tokens strtok() hands out within the MAX_ARGS iterations of the loop.
Consumed(line) == SubSeq(line, 1, Min(Len(line), MAX_ARGS))

\* For each consumed token, whether its reader finds a non-zero byte where
\* the terminator should be; only possible when ExpandPID left the
\* terminator outside the allocation.
JunkChoices(line, pid) ==
    {junk \in [1..Len(Consumed(line)) -> BOOLEAN] :
        \A k \in 1..Len(Consumed(line)) :
            junk[k] => ~Terminated(ExpandPID(line[k], pid))}

\* lp_tempArg of iteration k, as the parser reads it.
TempArg(line, pid, junk, k) ==
    IF junk[k]
    THEN ExpandPID(line[k], pid).str \o <<JUNK>>
    ELSE ExpandPID(line[k], pid).str

\* One iteration of the token loop.
ParseToken(c, tok) ==
    IF c.inputFlag
    THEN [c EXCEPT !.input = tok, !.inputFlag = FALSE]
    ELSE IF c.outputFlag
    THEN [c EXCEPT !.output = tok, !.outputFlag = FALSE]
    ELSE IF StrncmpEq(tok, INPUT, 2)
    THEN [c EXCEPT !.isRedirectInput = TRUE, !.inputFlag = TRUE]
    ELSE IF StrncmpEq(tok, OUTPUT, 2)
    THEN [c EXCEPT !.isRedirectOutput = TRUE, !.outputFlag = TRUE]
    ELSE [c EXCEPT !.args = Append(@, tok)]

RECURSIVE ParseLoop(_, _, _, _, _)
ParseLoop(line, pid, junk, k, c) ==
    IF k > Len(Consumed(line))
    THEN c
    ELSE ParseLoop(line, pid, junk, k + 1,
                   ParseToken(c, TempArg(line, pid, junk, k)))

\* The check made after the loop: a last argument "&" is dropped, and makes
\* the command a background one unless ignoreBackground is set.
BackgroundCheck(c, ignoreBg) ==
    LET argCount == Len(c.args) IN
    IF argCount > 0 /\ StrncmpEq(c.args[argCount], BACKGROUND, 2)
    THEN [c EXCEPT !.isBackground = ~ignoreBg,
                   !.args = SubSeq(@, 1, argCount - 1)]
    ELSE c

ParseCommand(line, pid, junk, ignoreBg) ==
    LET start == [args |-> <<>>, input |-> NULL, output |-> NULL,
                  isRedirectInput |-> FALSE, isRedirectOutput |-> FALSE,
                  isBackground |-> FALSE,
                  inputFlag |-> FALSE, outputFlag |-> FALSE]
        c == BackgroundCheck(ParseLoop(line, pid, junk, 1, start), ignoreBg)
    IN  [args |-> c.args, input |-> c.input, output |-> c.output,
         isRedirectInput |-> c.isRedirectInput,
         isRedirectOutput |-> c.isRedirectOutput,
         isBackground |-> c.isBackground]

(***************************************************************************)
(* The strings ExpandPID allocates, one block for each token consumed: how *)
(* often each has been passed to free(), and the blocks args[] points to.  *)
(***************************************************************************)
EmptyHeap == [cnt |-> <<>>, args |-> <<>>]

\* One iteration of the token loop, for block k holding tok.
HeapToken(h, tok, k) ==
    LET a == [h EXCEPT !.cnt = Append(@, 0)] IN
    IF h.inputFlag THEN [a EXCEPT !.inputFlag = FALSE]
    ELSE IF h.outputFlag THEN [a EXCEPT !.outputFlag = FALSE]
    ELSE IF StrncmpEq(tok, INPUT, 2)
    THEN [a EXCEPT !.cnt[k] = 1, !.inputFlag = TRUE]
    ELSE IF StrncmpEq(tok, OUTPUT, 2)
    THEN [a EXCEPT !.cnt[k] = 1, !.outputFlag = TRUE]
    ELSE [a EXCEPT !.args = Append(@, [id |-> k, tok |-> tok])]

RECURSIVE HeapLoop(_, _, _, _, _)
HeapLoop(line, pid, junk, k, h) ==
    IF k > Len(Consumed(line))
    THEN h
    ELSE HeapLoop(line, pid, junk, k + 1,
                  HeapToken(h, TempArg(line, pid, junk, k), k))

\* free( command->args[ argCount - 1 ] ) of the check made after the loop.
HeapBackground(h) ==
    LET argCount == Len(h.args) IN
    IF argCount > 0 /\ StrncmpEq(h.args[argCount].tok, BACKGROUND, 2)
    THEN [h EXCEPT !.cnt[h.args[argCount].id] = @ + 1,
                   !.args = SubSeq(@, 1, argCount - 1)]
    ELSE h

\* The blocks as ParseCommand leaves them.
ParseHeap(line, pid, junk) ==
    LET start == [cnt |-> <<>>, args |-> <<>>,
                  inputFlag |-> FALSE, outputFlag |-> FALSE]
        h == HeapBackground(HeapLoop(line, pid, junk, 1, start))
    IN  [cnt |-> h.cnt, args |-> [i \in 1..Len(h.args) |-> h.args[i].id]]

NotOnce(c) == c # 1

\* FreeArgs: free() of every args[ i ] that is not NULL.  A block released
\* once is gone; those never released or released twice are kept.
FreeArgsHeap(h) ==
    LET held == {h.args[i] : i \in 1..Len(h.args)}
        cnt == [k \in 1..Len(h.cnt) |->
                   IF k \in held THEN h.cnt[k] + 1 ELSE h.cnt[k]]
    IN  [cnt |-> SelectSeq(cnt, NotOnce), args |-> <<>>]

(***************************************************************************)
(* RunCommand's dispatch on args[ 0 ].                                     *)
(***************************************************************************)
Dispatch(c) ==
    IF c.args = <<>> THEN "blank"
    ELSE IF StrncmpEq(c.args[1], COMMENT, COMMENT_LEN) THEN "comment"
    ELSE IF StrncmpEq(c.args[1], CD_CMD, CD_LEN) THEN "cd"
    ELSE IF StrncmpEq(c.args[1], EXIT_CMD, EXIT_LEN) THEN "exit"
    ELSE IF StrncmpEq(c.args[1], STATUS_CMD, STATUS_LEN) THEN "status"
    ELSE "external"

(***************************************************************************)
(* The table of child pids.                                                *)
(***************************************************************************)
Slots == 1..MAX_CHILDREN

FreeSlots(tbl) == {k \in Slots : tbl[k] = 0}

FirstOf(S) == CHOOSE k \in S : \A m \in S : k <= m

\* (mutant) the pid goes into the last free slot
AddChildPidLast(tbl, p) ==
    IF FreeSlots(tbl) = {} THEN tbl
    ELSE [tbl EXCEPT ![CHOOSE k \in FreeSlots(tbl) :
                          \A m \in FreeSlots(tbl) : m <= k] = p]

\* The loop of AddChildPid: the first slot holding 0 takes the pid; with no
\* such slot nothing is stored and nothing is said.
AddChildPid(tbl, p) ==
    IF FreeSlots(tbl) = {} THEN tbl
    ELSE [tbl EXCEPT ![FirstOf(FreeSlots(tbl))] = p]

\* (mutant) the pid is left in its slot
RemoveNothing(tbl, p) == tbl

RemoveChildPid(tbl, p) ==
    LET hits == {k \in Slots : tbl[k] = p} IN
    IF hits = {} THEN tbl ELSE [tbl EXCEPT ![FirstOf(hits)] = 0]

(***************************************************************************)
(* The shell and its children.                                             *)
(***************************************************************************)
VARIABLES
    pc,                     \* where the main loop stands
    buf,                    \* the line read, as the tokens strtok cuts
    newCmd,                 \* the cmdStruct of the iteration
    childPids,              \* the table of child pids, 0 for a free slot
    childStatus,
    backgroundIgnoreSet,
    backgroundUnignoreSet,
    childTerminated,
    foregroundChild,
    ignoreBackground,
    pid,                    \* ExternalCommand's pid: the child waited for
    exitIdx,                \* MyExit's loop index
    procs,                  \* the processes fork() made
    pidStr,                 \* the shell's own pid, as snprintf prints it
    shellExit,              \* the shell's exit status, -1 while it runs
    out,                    \* what the command, then the reaper, printed
    arg,                    \* ExpandPID called on its own: its argument
    lp_newArg,              \*   and the string its caller reads back
    lastFg,                 \* history: the raw status a foreground child of
                            \*   this line (age 1) or of the line before
                            \*   (age 2) ended with
    tstpParity,             \* history: SIGTSTP deliveries so far, modulo 2
    exitSnap,               \* history: the table when exit was dispatched
    exitKilled,             \* history: pids MyExit signalled
    exitWaited,             \* history: pids MyExit waited for
    quiet,                  \* history: the line of this iteration ran the
                            \*   cd or the status built-in
    heap,                   \* the strings of the command: free() counts
                            \*   and the blocks args[] points to
    childIo                 \* where the child of the command being run has
                            \*   its standard input and output, its signal
                            \*   dispositions and the way its branch goes

vars ==
    <<pc, buf, newCmd, childPids, childStatus, backgroundIgnoreSet,
      backgroundUnignoreSet, childTerminated, foregroundChild,
      ignoreBackground, pid, exitIdx, procs, pidStr,
      shellExit, out, arg, lp_newArg, lastFg, tstpParity, exitSnap,
      exitKilled, exitWaited, quiet, heap, childIo>>

Pids == 1..MaxPid

LS == <<"l", "s">>
FILE == <<"f">>

\* strtok( buf, " \n" ): the tokens of a line of characters.  A space or a
\* newline ends a token; every other character, a tab too, is part of one.
Delims == {" ", "\n"}

RECURSIVE TokLoop(_, _, _, _)
TokLoop(raw, i, cur, acc) ==
    IF i > Len(raw)
    THEN IF cur = <<>> THEN acc ELSE Append(acc, cur)
    ELSE IF raw[i] \in Delims
         THEN TokLoop(raw, i + 1, <<>>,
                      IF cur = <<>> THEN acc ELSE Append(acc, cur))
         ELSE TokLoop(raw, i + 1, Append(cur, raw[i]), acc)

Strtok(raw) == TokLoop(raw, 1, <<>>, <<>>)

TAB == "\t"

\* The lines typed at the prompt, as fgets() stores them.
RawLines ==
    { <<"\n">>,
      <<" ", "\n">>,
      <<TAB, "\n">>,
      COMMENT \o <<"\n">>,
      CD_CMD \o <<"\n">>,
      STATUS_CMD \o <<"\n">>,
      EXIT_CMD \o <<"\n">>,
      LS \o <<"\n">>,
      LS \o <<" ">> \o BACKGROUND \o <<"\n">>,
      LS \o <<" ">> \o OUTPUT \o <<" ">> \o FILE \o <<"\n">>,
      LS \o <<" ">> \o INPUT \o <<"\n">>,
      LS \o <<" ">> \o BACKGROUND \o <<" ">> \o OUTPUT \o <<" ">> \o FILE
         \o <<"\n">> }

\* The same lines as the token loop of ParseCommand sees them.
Lines == {Strtok(raw) : raw \in RawLines}

\* The pids getpid() may return to the shell, as snprintf prints them.
ShellPids == { <<"7">>, <<"4", "2">>, <<"1", "2", "3">> }

\* Exit codes of the programs run.
ExitCodes == {0, 2}

\* errno after a failed open(), the exit code err() uses
OpenErrno == 2

\* A standard stream the child has not rewired: the one it inherited.
Inherited == [to |-> "inherited", path |-> NULL]

NoProc == [state |-> "none", status |-> 0, bg |-> FALSE, img |-> "none"]

\* The dispositions the shell gives itself before its loop.
SetSignalHandlers ==
    [int |-> "ignored", chld |-> "handler", tstp |-> "handler"]

\* (mutant) every child gets the default disposition of SIGINT
ChildSignalsForeground(bg) ==
    [int |-> "default", chld |-> "default", tstp |-> "ignored"]

\* The dispositions of a child when it calls execvp(): SIGCHLD and SIGTSTP
\* are set for every child, SIGINT only for one that is not background,
\* which otherwise keeps what fork() copied from the shell.
ChildSignals(bg) ==
    [int |-> IF bg THEN SetSignalHandlers.int ELSE "default",
     chld |-> "default", tstp |-> "ignored"]

\* childIo when the command being run has no child
NoIo ==
    [stdin |-> Inherited, stdout |-> Inherited, sig |-> SetSignalHandlers,
     branch |-> "none"]

\* lastFg when neither this line nor the one before ran a foreground child
NoFg == [st |-> 0, age |-> 0]

Running(p) == procs[p].state = "running"
Zombie(p) == procs[p].state = "zombie"

Alive == pc # "Exited"

hist ==
    <<lastFg, tstpParity, exitSnap, exitKilled, exitWaited, quiet, childIo>>
alone == <<arg, lp_newArg, heap>>
flags ==
    <<backgroundIgnoreSet, backgroundUnignoreSet, childTerminated,
      foregroundChild, ignoreBackground>>

InitShell ==
    /\ newCmd = EmptyCmd
    /\ childPids = [k \in Slots |-> 0]
    /\ childStatus = 0
    /\ backgroundIgnoreSet = FALSE
    /\ backgroundUnignoreSet = FALSE
    /\ childTerminated = FALSE
    /\ foregroundChild = FALSE
    /\ pid = 0
    /\ exitIdx = 0
    /\ procs = [p \in Pids |-> NoProc]
    /\ shellExit = -1
    /\ out = <<>>
    /\ lp_newArg = <<>>
    /\ lastFg = NoFg
    /\ exitSnap = {}
    /\ exitKilled = {}
    /\ exitWaited = {}
    /\ quiet = FALSE
    /\ childIo = NoIo
    /\ heap = EmptyHeap

\* The shell as main() enters its loop.
Init ==
    /\ InitShell
    /\ pc = "GetInput"
    /\ buf = <<>>
    /\ ignoreBackground = FALSE
    /\ tstpParity = 0
    /\ pidStr = <<"1", "2", "3">>
    /\ arg = <<>>

Msg(m, p, v) == [msg |-> m, pid |-> p, val |-> v]

\* main(), lines 161-163: the loop starts over with a cleared command.
\* Nothing reads newCmd between FreeArgs and this memset, so the model
\* clears the record as soon as FreeArgs has run.
ClearCommand ==
    /\ newCmd' = EmptyCmd
    /\ buf' = <<>>

(***************************************************************************)
(* GetInput: a deferred notice, the prompt, the line.                      *)
(***************************************************************************)
\* The two notices, of the mode entered (TRUE: foreground-only).
Notice(mode) ==
    IF mode THEN Msg("Entering foreground-only mode", 0, 0)
    ELSE Msg("Exiting foreground-only mode", 0, 0)

\* out holds what the shell has written since its last prompt: the prompt
\* starts it over, after the deferred notice.
ReadLine(lines) ==
    /\ pc = "GetInput"
    /\ out' = IF backgroundIgnoreSet THEN <<Notice(TRUE)>>
              ELSE IF backgroundUnignoreSet THEN <<Notice(FALSE)>>
              ELSE <<>>
    /\ backgroundIgnoreSet' = FALSE
    /\ backgroundUnignoreSet' =
          IF backgroundIgnoreSet THEN backgroundUnignoreSet ELSE FALSE
    /\ buf' \in lines
    /\ quiet' = FALSE
    /\ heap' = EmptyHeap
    /\ pc' = "ParseCommand"
    /\ UNCHANGED <<newCmd, childPids, childStatus, childTerminated,
                   foregroundChild, ignoreBackground, pid, exitIdx, procs,
                   pidStr, shellExit, lastFg, tstpParity, exitSnap,
                   exitKilled, exitWaited, childIo, arg, lp_newArg>>

GetInput == ReadLine(Lines)

(***************************************************************************)
(* ParseCommand on the line read.                                          *)
(***************************************************************************)
Parse ==
    /\ pc = "ParseCommand"
    /\ \E junk \in JunkChoices(buf, pidStr) :
          /\ newCmd' = ParseCommand(buf, pidStr, junk, ignoreBackground)
          /\ heap' = ParseHeap(buf, pidStr, junk)
    /\ pc' = "RunCommand"
    /\ UNCHANGED <<buf, childPids, childStatus, flags, pid, exitIdx, procs,
                   pidStr, shellExit, out, hist, arg, lp_newArg>>

\* calloc() fails in ExpandPID: the shell exits with failure.
ParseNoMemory ==
    /\ pc = "ParseCommand"
    /\ buf # <<>>
    /\ pc' = "Exited"
    /\ shellExit' = EXIT_FAILURE
    /\ UNCHANGED <<buf, newCmd, childPids, childStatus, flags, pid, exitIdx,
                   procs, pidStr, out, hist, alone>>

(***************************************************************************)
(* RunCommand.                                                             *)
(***************************************************************************)
RunSkip ==
    /\ pc = "RunCommand"
    /\ Dispatch(newCmd) \in {"blank", "comment"}
    /\ pc' = "FreeArgs"
    /\ UNCHANGED <<buf, newCmd, childPids, childStatus, flags, pid, exitIdx,
                   procs, pidStr, shellExit, out, hist,
                   alone>>

\* MyChangeDir: chdir() succeeds or fails; a failure is only reported.
MyChangeDir ==
    /\ pc = "RunCommand"
    /\ Dispatch(newCmd) = "cd"
    /\ \E ok \in BOOLEAN :
          out' = IF ok THEN out ELSE Append(out, Msg("cd failed", 0, 0))
    /\ quiet' = TRUE
    /\ pc' = "FreeArgs"
    /\ UNCHANGED <<buf, newCmd, childPids, childStatus, flags, pid, exitIdx,
                   procs, pidStr, shellExit, lastFg, tstpParity,
                   exitSnap, exitKilled, exitWaited, childIo, alone>>

MyStatus ==
    /\ pc = "RunCommand"
    /\ Dispatch(newCmd) = "status"
    /\ out' = Append(out, Msg("exit status", 0, childStatus))
    /\ quiet' = TRUE
    /\ pc' = "FreeArgs"
    /\ UNCHANGED <<buf, newCmd, childPids, childStatus, flags, pid, exitIdx,
                   procs, pidStr, shellExit, lastFg, tstpParity,
                   exitSnap, exitKilled, exitWaited, childIo, alone>>

(***************************************************************************)
(* ExternalCommand.                                                        *)
(***************************************************************************)
\* (mutant) a failed fork() ends the shell
ForkFailureFatal == "Exited"

\* Where a failed fork() leaves the shell: the failure is reported and
\* ExternalCommand returns to main().
AfterForkFailure == "FreeArgs"

\* (mutant) a failed fork() is recorded as a failed command
ForkFailsRecorded ==
    /\ pc = "RunCommand"
    /\ Dispatch(newCmd) = "external"
    /\ pc' = AfterForkFailure
    /\ childStatus' = EXIT_FAILURE
    /\ UNCHANGED <<buf, newCmd, childPids, flags, pid, exitIdx,
                   procs, pidStr, shellExit, out, hist,
                   alone>>

\* case -1: the failure is reported on stderr, and break.
ForkFails ==
    /\ pc = "RunCommand"
    /\ Dispatch(newCmd) = "external"
    /\ pc' = AfterForkFailure
    /\ UNCHANGED <<buf, newCmd, childPids, childStatus, flags, pid, exitIdx,
                   procs, pidStr, shellExit, out, hist,
                   alone>>

\* How the child branch can end: the image replaced, execvp() failed, or
\* UTL_OpenFile() ended the child because open() failed.
ChildImages(c) ==
    IF (c.isRedirectOutput /\ c.output = NULL)
          \/ (c.isRedirectInput /\ c.input = NULL)
    THEN {"openfail"}
    ELSE {"prog", "execfail"}
            \cup (IF c.isRedirectOutput \/ c.isRedirectInput
                  THEN {"openfail"} ELSE {})

FreshPids == {p \in Pids : procs[p].state = "none"}

\* (mutant) a background child without "<" keeps the stream it inherited
StdinKept(c) ==
    IF c.isRedirectInput THEN [to |-> "file", path |-> c.input]
    ELSE Inherited

\* The child branch up to execvp(): where dup2() leaves each standard stream.
StdinOf(c) ==
    IF c.isRedirectInput THEN [to |-> "file", path |-> c.input]
    ELSE IF c.isBackground THEN [to |-> "file", path |-> DEV_NULL]
    ELSE Inherited

StdoutOf(c) ==
    IF c.isRedirectOutput THEN [to |-> "file", path |-> c.output]
    ELSE IF c.isBackground THEN [to |-> "file", path |-> DEV_NULL]
    ELSE Inherited

Fork ==
    /\ pc = "RunCommand"
    /\ Dispatch(newCmd) = "external"
    /\ FreshPids # {}
    /\ LET p == FirstOf(FreshPids) IN
          /\ \E im \in ChildImages(newCmd) :
                /\ procs' = [procs EXCEPT ![p] =
                               [state |-> "running", status |-> 0,
                                bg |-> newCmd.isBackground, img |-> im]]
                /\ childIo' = [stdin |-> StdinOf(newCmd),
                               stdout |-> StdoutOf(newCmd),
                               sig |-> ChildSignals(newCmd.isBackground),
                               branch |-> im]
          /\ childPids' = AddChildPid(childPids, p)
          /\ IF newCmd.isBackground
             THEN /\ out' = Append(out, Msg("background pid is", p, 0))
                  /\ pc' = "FreeArgs"
                  /\ UNCHANGED <<pid, foregroundChild>>
             ELSE /\ foregroundChild' = TRUE
                  /\ pid' = p
                  /\ pc' = "WaitFg"
                  /\ out' = out
    /\ UNCHANGED <<buf, newCmd, childStatus, backgroundIgnoreSet,
                   backgroundUnignoreSet, childTerminated, ignoreBackground,
                   exitIdx, pidStr, shellExit, lastFg,
                   tstpParity, exitSnap, exitKilled, exitWaited, quiet,
                   alone>>

\* A child that has ended keeps nothing but its raw status.
Ended(p, st) ==
    [procs EXCEPT ![p] = [state |-> "zombie", status |-> st, bg |-> FALSE,
                          img |-> "none"]]

Reaped(p) ==
    [procs EXCEPT ![p] = [state |-> "reaped", status |-> 0, bg |-> FALSE,
                          img |-> "none"]]

\* waitpid( pid, &childStatus, 0 ) returns; RemoveChildPid( pid ).
WaitFg ==
    /\ pc = "WaitFg"
    /\ Zombie(pid)
    /\ childStatus' = procs[pid].status
    /\ procs' = Reaped(pid)
    /\ childPids' = RemoveChildPid(childPids, pid)
    /\ lastFg' = [st |-> procs[pid].status, age |-> 1]
    /\ pc' = "FgClear"
    /\ UNCHANGED <<buf, newCmd, flags, pid, exitIdx, pidStr,
                   shellExit, out, tstpParity, exitSnap, exitKilled,
                   exitWaited, quiet, childIo, alone>>

\* (mutant) the wrong macro: WIFSIGNALED of a child that exited
CapturedSignaled(st) ==
    IF WIFSIGNALED(st) THEN st
    ELSE IF st # 0 THEN (IF WIFSIGNALED(st) THEN 1 ELSE 0)
    ELSE st

\* The status ExternalCommand leaves in childStatus.
Captured(st) ==
    IF WIFSIGNALED(st) THEN st
    ELSE IF st # 0 THEN WIFEXITED(st)
    ELSE st

FgClear ==
    /\ pc = "FgClear"
    /\ foregroundChild' = FALSE
    /\ out' = IF WIFSIGNALED(childStatus)
              THEN Append(out, Msg("terminated by signal", 0,
                                   WTERMSIG(childStatus)))
              ELSE out
    /\ childStatus' = Captured(childStatus)
    /\ pid' = 0
    /\ pc' = "FreeArgs"
    /\ UNCHANGED <<buf, newCmd, childPids, backgroundIgnoreSet,
                   backgroundUnignoreSet, childTerminated, ignoreBackground,
                   exitIdx, procs, pidStr, shellExit, hist,
                   alone>>

(***************************************************************************)
(* main(): FreeArgs, then the check of childTerminated.                    *)
(***************************************************************************)
FreeArgs ==
    /\ pc = "FreeArgs"
    /\ ClearCommand
    /\ out' = <<>>
    /\ lastFg' = IF lastFg.age = 1 THEN [lastFg EXCEPT !.age = 2] ELSE NoFg
    /\ childIo' = NoIo
    /\ heap' = FreeArgsHeap(heap)
    /\ pc' = "ReapCheck"
    /\ UNCHANGED <<childPids, childStatus, flags, pid, exitIdx, procs,
                   pidStr, shellExit, tstpParity, exitSnap, exitKilled,
                   exitWaited, quiet, arg, lp_newArg>>

ReapCheck ==
    /\ pc = "ReapCheck"
    /\ pc' = IF childTerminated THEN "ReapZombies" ELSE "GetInput"
    /\ UNCHANGED <<buf, newCmd, childPids, childStatus, flags, pid, exitIdx,
                   procs, pidStr, shellExit, out, hist,
                   alone>>

(***************************************************************************)
(* ReapZombies.                                                            *)
(***************************************************************************)
\* What the reaper prints for a child with raw status st.
DoneReport(p, st) ==
    IF WIFSIGNALED(st)
    THEN Msg("done: terminated by signal", p, WTERMSIG(st))
    ELSE Msg("done: exit value", p, st)

\* (mutant) the reaper also runs when a command is about to be dispatched
InReaperOrDispatch == pc \in {"ReapZombies", "RunCommand"}

\* Control is in the loop of ReapZombies, which only main() calls.
InReaper == pc = "ReapZombies"

\* waitpid( -1, &childStatus, WNOHANG ) finds a terminated child.
ReapOne ==
    /\ InReaper
    /\ \E p \in Pids :
          /\ Zombie(p)
          /\ childStatus' = procs[p].status
          /\ out' = Append(out, DoneReport(p, procs[p].status))
          /\ childPids' = RemoveChildPid(childPids, p)
          /\ procs' = Reaped(p)
    /\ UNCHANGED <<pc, buf, newCmd, flags, pid, exitIdx, 
                   pidStr, shellExit, hist, alone>>

\* waitpid() finds none: the loop ends.
ReapNone ==
    /\ pc = "ReapZombies"
    /\ \A p \in Pids : ~Zombie(p)
    /\ pc' = "ReapClear"
    /\ UNCHANGED <<buf, newCmd, childPids, childStatus, flags, pid, exitIdx,
                   procs, pidStr, shellExit, out, hist,
                   alone>>

ReapClear ==
    /\ pc = "ReapClear"
    /\ childTerminated' = FALSE
    /\ out' = <<>>
    /\ pc' = "GetInput"
    /\ UNCHANGED <<buf, newCmd, childPids, childStatus, backgroundIgnoreSet,
                   backgroundUnignoreSet, foregroundChild, ignoreBackground,
                   pid, exitIdx, procs, pidStr, shellExit,
                   hist, alone>>

(***************************************************************************)
(* HandleSIGCHLD: the handler only sets the flag.                          *)
(***************************************************************************)
\* (mutant) the handler collects the status itself
HandleSIGCHLDWaits ==
    /\ childTerminated' = TRUE
    /\ childStatus' = 0
    /\ UNCHANGED <<childPids, newCmd>>

HandleSIGCHLD ==
    /\ childTerminated' = TRUE
    /\ UNCHANGED <<childPids, childStatus, newCmd>>

(***************************************************************************)
(* MyExit.                                                                 *)
(***************************************************************************)
TablePids(tbl) == {tbl[k] : k \in Slots} \ {0}

\* The exit built-in is dispatched: FreeArgs, then the loop over the table.
RunExit ==
    /\ pc = "RunCommand"
    /\ Dispatch(newCmd) = "exit"
    /\ exitIdx' = 1
    /\ exitSnap' = TablePids(childPids)
    /\ heap' = FreeArgsHeap(heap)
    /\ pc' = "MyExit"
    /\ UNCHANGED <<buf, newCmd, childPids, childStatus, flags, pid, procs,
                   pidStr, shellExit, out, lastFg,
                   tstpParity, exitKilled, exitWaited, quiet, childIo,
                   arg, lp_newArg>>

\* (mutant) only the first slot of the table is looked at
ExitTargetFirstOnly(tbl, k) == tbl[k] # 0 /\ k = 1

\* The slots MyExit acts on.
ExitTarget(tbl, k) == tbl[k] # 0

\* kill( childPids[ i ], SIGTERM ): a running child dies of the signal,
\* unless its program blocks or handles it.
MyExitKill ==
    /\ pc = "MyExit"
    /\ exitIdx <= MAX_CHILDREN
    /\ ExitTarget(childPids, exitIdx)
    /\ LET p == childPids[exitIdx] IN
          /\ \/ /\ Running(p)
                /\ procs' = Ended(p, SignaledRaw(SIGTERM))
                /\ HandleSIGCHLD
             \/ UNCHANGED <<procs, childTerminated>>
          /\ exitKilled' = exitKilled \cup {p}
    /\ pc' = "MyExitWait"
    /\ UNCHANGED <<buf, newCmd, childPids, childStatus, backgroundIgnoreSet,
                   backgroundUnignoreSet, foregroundChild, ignoreBackground,
                   pid, exitIdx, pidStr, shellExit, out, lastFg, tstpParity,
                   exitSnap, exitWaited, quiet, childIo, alone>>

\* waitpid( childPids[ i ], &childStatus, 0 ) returns.
MyExitWait ==
    /\ pc = "MyExitWait"
    /\ LET p == childPids[exitIdx] IN
          /\ Zombie(p)
          /\ childStatus' = procs[p].status
          /\ procs' = Reaped(p)
          /\ exitWaited' = exitWaited \cup {p}
    /\ exitIdx' = exitIdx + 1
    /\ pc' = "MyExit"
    /\ UNCHANGED <<buf, newCmd, childPids, flags, pid, 
                   pidStr, shellExit, out, lastFg, tstpParity, exitSnap,
                   exitKilled, quiet, childIo, alone>>

MyExitSkip ==
    /\ pc = "MyExit"
    /\ exitIdx <= MAX_CHILDREN
    /\ ~ExitTarget(childPids, exitIdx)
    /\ exitIdx' = exitIdx + 1
    /\ UNCHANGED <<pc, buf, newCmd, childPids, childStatus, flags, pid,
                   procs, pidStr, shellExit, out, hist,
                   alone>>

\* exit( EXIT_SUCCESS )
MyExitDone ==
    /\ pc = "MyExit"
    /\ exitIdx > MAX_CHILDREN
    /\ pc' = "Exited"
    /\ shellExit' = EXIT_SUCCESS
    /\ UNCHANGED <<buf, newCmd, childPids, childStatus, flags, pid, exitIdx,
                   procs, pidStr, out, hist, alone>>

(***************************************************************************)
(* The children and the signals.                                           *)
(***************************************************************************)
\* (mutant) after a failed execvp() the child leaves the switch like the
\* parent and goes on in the loop of main()
ChildBranchReturns(img) ==
    CASE img = "openfail" ->
            [execvp |-> FALSE, ends |-> "exit", code |-> OpenErrno]
      [] img = "execfail" ->
            [execvp |-> TRUE, ends |-> "return", code |-> 0]
      [] OTHER -> [execvp |-> TRUE, ends |-> "image", code |-> 0]

\* The child branch of ExternalCommand, by the way it goes: whether it
\* reaches execvp(), and how the code of the shell ends in the child: the
\* image is replaced, or the child exits with a code (err() in UTL_OpenFile,
\* exit( EXIT_FAILURE ) after execvp() has returned).
ChildBranch(img) ==
    CASE img = "openfail" ->
            [execvp |-> FALSE, ends |-> "exit", code |-> OpenErrno]
      [] img = "execfail" ->
            [execvp |-> TRUE, ends |-> "exit", code |-> EXIT_FAILURE]
      [] OTHER -> [execvp |-> TRUE, ends |-> "image", code |-> 0]

\* The raw statuses a running child can end with.  The interrupt signal
\* kills only a child that ExternalCommand gave the default disposition.
EndStatuses(p) ==
    IF ChildBranch(procs[p].img).ends = "exit"
    THEN {ExitedRaw(ChildBranch(procs[p].img).code)}
    ELSE    {ExitedRaw(c) : c \in ExitCodes} \cup {SignaledRaw(SIGTERM)}
               \cup (IF ChildSignals(procs[p].bg).int = "default"
                     THEN {SignaledRaw(SIGINT)} ELSE {})

\* A child ends: the kernel raises SIGCHLD and the shell's handler runs.
ChildEnds ==
    /\ Alive
    /\ \E p \in Pids :
          /\ Running(p)
          /\ \E st \in EndStatuses(p) : procs' = Ended(p, st)
    /\ HandleSIGCHLD
    /\ UNCHANGED <<pc, buf,
                   backgroundIgnoreSet, backgroundUnignoreSet,
                   foregroundChild, ignoreBackground, pid, exitIdx, pidStr,
                   shellExit, out, hist, alone>>

\* The running children that SIGINT ends unless their program handles it.
Interruptible ==
    {p \in Pids : /\ Running(p)
                  /\ procs[p].img = "prog"
                  /\ ChildSignals(procs[p].bg).int = "default"}

\* SIGINT from the terminal goes to the shell and to all its children; a
\* delivery that ends nobody changes nothing and is left out.
Interrupt ==
    /\ Alive
    /\ \E V \in SUBSET Interruptible :
          /\ V # {} \/ SetSignalHandlers.int # "ignored"
          /\ procs' = [p \in Pids |->
                         IF p \in V
                         THEN [state |-> "zombie",
                               status |-> SignaledRaw(SIGINT),
                               bg |-> FALSE, img |-> "none"]
                         ELSE procs[p]]
          /\ IF V # {} THEN HandleSIGCHLD
             ELSE UNCHANGED <<childTerminated, childPids, childStatus,
                              newCmd>>
    /\ IF SetSignalHandlers.int = "ignored"
       THEN UNCHANGED <<pc, shellExit>>
       ELSE pc' = "Exited" /\ shellExit' = 128 + SIGINT
    /\ UNCHANGED <<buf, backgroundIgnoreSet, backgroundUnignoreSet,
                   foregroundChild, ignoreBackground, pid, exitIdx, pidStr,
                   out, hist, alone>>

\* (mutant) the handler only ever enters foreground-only mode
ToggledStuck(mode) == TRUE

\* The mode HandleSIGTSTP leaves.
Toggled(mode) == ~mode

\* The places of the notices in the output.
Notices(o) == {i \in 1..Len(o) : o[i] \in {Notice(TRUE), Notice(FALSE)}}

\* (mutant) the handler writes its notice whatever the shell is doing
DeferredNever == FALSE

\* The handler's test of foregroundChild: the notice is put off.
Deferred == foregroundChild

\* The handler runs with every signal blocked (SetSignalHandlers): one step.
\* Deliveries that write are counted up to MaxNotices per prompt.
HandleSIGTSTP ==
    /\ Alive
    /\ ignoreBackground' = Toggled(ignoreBackground)
    /\ IF Deferred
       THEN /\ IF ignoreBackground = FALSE
               THEN backgroundIgnoreSet' = TRUE
                       /\ UNCHANGED backgroundUnignoreSet
               ELSE backgroundUnignoreSet' = TRUE
                       /\ UNCHANGED backgroundIgnoreSet
            /\ out' = out
       ELSE /\ Cardinality(Notices(out)) < MaxNotices
            /\ out' = Append(out, Notice(~ignoreBackground))
            /\ UNCHANGED <<backgroundIgnoreSet, backgroundUnignoreSet>>
    /\ tstpParity' = (tstpParity + 1) % 2
    /\ UNCHANGED <<pc, buf, newCmd, childPids, childStatus, childTerminated,
                   foregroundChild, pid, exitIdx, procs, 
                   pidStr, shellExit, lastFg, exitSnap, exitKilled,
                   exitWaited, quiet, childIo, alone>>

Next ==
    \/ GetInput
    \/ Parse
    \/ ParseNoMemory
    \/ RunSkip
    \/ MyChangeDir
    \/ MyStatus
    \/ ForkFails
    \/ Fork
    \/ WaitFg
    \/ FgClear
    \/ FreeArgs
    \/ ReapCheck
    \/ ReapOne
    \/ ReapNone
    \/ ReapClear
    \/ RunExit
    \/ MyExitKill
    \/ MyExitWait
    \/ MyExitSkip
    \/ MyExitDone
    \/ ChildEnds
    \/ Interrupt
    \/ HandleSIGTSTP

Spec == Init /\ [][Next]_vars

(***************************************************************************)
(* The reaper and SIGCHLD: a user who enters blank lines and background    *)
(* commands for ever, children that end whenever they like.                *)
(***************************************************************************)
BackgroundLines ==
    {Strtok(<<"\n">>), Strtok(LS \o <<" ">> \o BACKGROUND \o <<"\n">>)}

GetInputBackground == ReadLine(BackgroundLines)

\* The steps the shell takes by itself.
ShellReap ==
    \/ GetInputBackground
    \/ Parse
    \/ RunSkip
    \/ Fork
    \/ WaitFg
    \/ FgClear
    \/ FreeArgs
    \/ ReapCheck
    \/ ReapOne
    \/ ReapNone
    \/ ReapClear

NextReap == ShellReap \/ ChildEnds

\* The shell keeps running while it has a step to take, and a line is read
\* whenever it stands at the prompt.
SpecReap == Init /\ [][NextReap]_vars /\ WF_vars(ShellReap)

(***************************************************************************)
(* ExpandPID on its own: every token over a small alphabet, every pid.     *)
(***************************************************************************)
ExpandAlphabet == {"$", "a", "&"}

ExpandTokens == UNION {[1..n -> ExpandAlphabet] : n \in 1..MaxTokLen}

InitExpand ==
    /\ InitShell
    /\ pc = "ExpandPID"
    /\ buf = <<>>
    /\ ignoreBackground = FALSE
    /\ tstpParity = 0
    /\ pidStr \in ShellPids
    /\ arg \in ExpandTokens

CallExpandPID ==
    /\ pc = "ExpandPID"
    /\ lp_newArg' \in Readings(ExpandPID(arg, pidStr))
    /\ pc' = "Expanded"
    /\ UNCHANGED <<buf, newCmd, childPids, childStatus, flags, pid, exitIdx,
                   procs, pidStr, shellExit, out, hist, arg, heap>>

\* calloc() returns NULL: exit( EXIT_FAILURE )
ExpandNoMemory ==
    /\ pc = "ExpandPID"
    /\ pc' = "Exited"
    /\ shellExit' = EXIT_FAILURE
    /\ UNCHANGED <<buf, newCmd, childPids, childStatus, flags, pid, exitIdx,
                   procs, pidStr, out, hist, alone>>

NextExpand == CallExpandPID \/ ExpandNoMemory

SpecExpand == InitExpand /\ [][NextExpand]_vars

(***************************************************************************)
(* ParseCommand on its own: every line over the parser's tokens, up to one *)
(* token more than the loop consumes, in either mode.                      *)
(***************************************************************************)
ParseTokens == {LS, BACKGROUND, INPUT, OUTPUT}

ParseLines == UNION {[1..n -> ParseTokens] : n \in 0..(MAX_ARGS + 1)}

\* The shell about to parse a line, in either mode.
InitParse ==
    /\ InitShell
    /\ pc = "ParseCommand"
    /\ buf \in ParseLines
    /\ ignoreBackground \in BOOLEAN
    /\ tstpParity = (IF ignoreBackground THEN 1 ELSE 0)
    /\ pidStr \in ShellPids
    /\ arg = <<>>

NextParse == Parse \/ ParseNoMemory

SpecParse == InitParse /\ [][NextParse]_vars

(***************************************************************************)
(* The launch of the parsed command: every line over the parser's tokens,  *)
(* parsed, then dispatched up to the return of fork().                     *)
(***************************************************************************)
NextLaunch ==
    \/ Parse
    \/ ParseNoMemory
    \/ RunSkip
    \/ ForkFails
    \/ Fork

SpecLaunch == InitParse /\ [][NextLaunch]_vars

(***************************************************************************)
(* Properties.                                                             *)
(***************************************************************************)
\* The shell has ended through the exit built-in.
ExitedByBuiltin == pc = "Exited" /\ exitIdx > 0

\* The completion reports among the messages printed.
DoneMsgs(o) ==
    {i \in 1..Len(o) :
        o[i].msg \in {"done: exit value", "done: terminated by signal"}}

\* The status built-in has just run.
StatusRan == pc = "FreeArgs" /\ Dispatch(newCmd) = "status"

\* The line before the current one ran a foreground child to its end.
AfterForeground == lastFg.age = 2

\* C1: when exit is dispatched, every pid in the table at that moment is
\* sent the termination signal and then waited for before the shell ends,
\* with success status; no report of a finished background child is printed
\* once exit is dispatched.
C1_ExitKillsAndWaits ==
    /\ exitWaited \subseteq exitKilled
    /\ (pc \in {"MyExit", "MyExitWait"} \/ ExitedByBuiltin)
          => DoneMsgs(out) = {}
    /\ ExitedByBuiltin =>
          /\ shellExit = EXIT_SUCCESS
          /\ exitSnap \subseteq exitWaited
          /\ \A p \in exitSnap : procs[p].state = "reaped"

C1_Witness ==
    /\ ExitedByBuiltin
    /\ Cardinality(exitSnap) = MAX_CHILDREN

\* C2: when the shell ends through exit, no child it launched is still
\* running.
C2_NoOrphanAtExit ==
    ExitedByBuiltin => \A p \in Pids : ~Running(p)

\* C3: launching a background command, a child ending and the reaper's
\* steps all leave childStatus, the value status reports, unchanged.
C3_OnlyForegroundSetsStatus ==
    [][(\/ pc \in {"ReapZombies", "ReapClear"}
        \/ (pc = "RunCommand" /\ newCmd.isBackground)
        \/ (pc' = pc /\ procs' # procs))
          => childStatus' = childStatus]_vars

\* C4: status run right after a foreground command reports the signal form
\* if that command's child was killed by a signal, the exit-code form if it
\* exited.
C4_StatusForm ==
    (StatusRan /\ AfterForeground) =>
        /\ Len(out) = 1
        /\ out[1].msg = IF WIFSIGNALED(lastFg.st)
                        THEN "terminated by signal"
                        ELSE "exit status"
        /\ WIFSIGNALED(lastFg.st) => out[1].val = WTERMSIG(lastFg.st)

\* C5: when the foreground child exited normally with code c, ExternalCommand
\* leaves c in childStatus.
C5_CapturedExitCode ==
    [][(pc = "FgClear" /\ pc' = "FreeArgs" /\ ~WIFSIGNALED(lastFg.st))
          => childStatus' = WEXITSTATUS(lastFg.st)]_vars

\* C6: after a foreground command whose execvp() failed, the child having
\* exited with EXIT_FAILURE, status run on the next line reports a non-zero
\* exit code.
C6_StatusAfterExecFailure ==
    (StatusRan /\ AfterForeground /\ lastFg.st = ExitedRaw(EXIT_FAILURE)) =>
        /\ Len(out) = 1
        /\ out[1].msg = "exit status"
        /\ out[1].val # 0

\* The expansion the specification describes: every "$$", left to right and
\* without overlap, becomes the pid; every other character stays.
RECURSIVE RefExpand(_, _)
RefExpand(tok, p) ==
    IF tok = <<>> THEN <<>>
    ELSE IF Len(tok) >= 2 /\ SubSeq(tok, 1, 2) = PID_VAR
         THEN p \o RefExpand(SubSeq(tok, 3, Len(tok)), p)
         ELSE <<Head(tok)>> \o RefExpand(Tail(tok), p)

\* The argument tokens of a line as typed: the consumed tokens that are
\* neither a redirection operator nor the path that follows one.
RECURSIVE RawArgs(_, _, _)
RawArgs(line, k, isPath) ==
    IF k > Len(Consumed(line)) THEN <<>>
    ELSE IF isPath THEN RawArgs(line, k + 1, FALSE)
    ELSE IF line[k] \in {INPUT, OUTPUT} THEN RawArgs(line, k + 1, TRUE)
    ELSE <<line[k]>> \o RawArgs(line, k + 1, FALSE)

LastArgIsAmp(line) ==
    LET a == RawArgs(line, 1, FALSE) IN a # <<>> /\ a[Len(a)] = BACKGROUND

\* The parser has just produced newCmd from buf.
Parsed == pc = "RunCommand"

\* C7: ignoreBackground is its initial value after an even number of SIGTSTP
\* deliveries and the opposite after an odd number, wherever the main loop
\* stands, so two deliveries restore it; and a trailing "&" that the parser
\* drops makes the command a background one exactly when that number is even.
C7_DoubleToggleRestores ==
    /\ [](ignoreBackground = (tstpParity = 1))
    /\ [][(pc = "ParseCommand" /\ pc' = "RunCommand"
              /\ Len(newCmd'.args) < Len(RawArgs(buf, 1, FALSE)))
            => newCmd'.isBackground = (tstpParity = 0)]_vars

\* Two deliveries during one foreground wait set both deferred flags, the
\* prompt clears only the first, and the next "&" command is parsed as a
\* background one again.
C7_Witness ==
    /\ Parsed
    /\ newCmd.isBackground
    /\ backgroundUnignoreSet
    /\ ~backgroundIgnoreSet
    /\ tstpParity = 0

\* C8: a line whose last argument token is "&" is parsed with the "&"
\* removed from the arguments and with isBackground set exactly when
\* ignoreBackground is false; any other line is parsed with isBackground
\* false.
C8_BackgroundRule ==
    Parsed =>
        LET a == RawArgs(buf, 1, FALSE) IN
        IF LastArgIsAmp(buf)
        THEN /\ newCmd.isBackground = ~ignoreBackground
             /\ Len(newCmd.args) = Len(a) - 1
             /\ \A k \in 1..Len(newCmd.args) :
                    newCmd.args[k] = RefExpand(a[k], pidStr)
        ELSE newCmd.isBackground = FALSE

\* C9: isBackground is true only if the final token of the line as typed
\* was "&" and ignoreBackground was false when the line was parsed.
C9_BackgroundOnlyIfFinalAmp ==
    (Parsed /\ newCmd.isBackground) =>
        /\ buf # <<>>
        /\ buf[Len(buf)] = BACKGROUND
        /\ ~ignoreBackground

\* C10: the string ExpandPID hands back is the token with every "$$"
\* replaced by the pid string and every other character kept.
C10_ExpansionExact ==
    pc = "Expanded" => lp_newArg = RefExpand(arg, pidStr)

\* The line in buf holds nothing but whitespace, or its first token starts
\* with "#".  Spaces and newlines never reach a token, so a whitespace-only
\* line is one whose tokens, if any, are made of tabs.
BlankOrComment ==
    \/ \A k \in 1..Len(buf) : \A i \in 1..Len(buf[k]) : buf[k][i] = TAB
    \/ (buf # <<>> /\ buf[1][1] = "#")

\* C11: the main-loop steps that process a blank or comment line, from its
\* parsing to the freeing of its arguments, create no child and leave
\* childPids, childStatus and ignoreBackground unchanged.
C11_BlankLineNoEffect ==
    [][(BlankOrComment /\ pc \in {"ParseCommand", "RunCommand", "FreeArgs"}
          /\ pc' # pc)
         => /\ procs' = procs
            /\ childPids' = childPids
            /\ childStatus' = childStatus
            /\ ignoreBackground' = ignoreBackground]_vars

\* C12: the cd and status built-ins leave childStatus and childPids
\* unchanged, and so does the rest of the iteration of a line that ran one
\* of them leave childStatus: a status after any number of cd and status
\* lines reports what a status before them reported.
C12_BuiltinsKeepStatus ==
    [][/\ (pc = "RunCommand" /\ Dispatch(newCmd) \in {"cd", "status"}
              /\ pc' = "FreeArgs")
            => (childStatus' = childStatus /\ childPids' = childPids)
       /\ quiet => childStatus' = childStatus]_vars

\* C13: a child that reaches execvp() has each of its two standard streams
\* on the path the command names for it, if the command redirects it; else
\* on the null device, if the command is a background one; else as it was
\* inherited.
C13_RedirectionWiring ==
    [][(pc = "RunCommand" /\ procs' # procs /\ FreshPids # {})
         => LET c == newCmd
                null == [to |-> "file", path |-> DEV_NULL]
            IN  procs'[FirstOf(FreshPids)].img \in {"prog", "execfail"} =>
                  /\ childIo'.stdin =
                        IF c.isRedirectInput
                        THEN [to |-> "file", path |-> c.input]
                        ELSE IF c.isBackground THEN null ELSE Inherited
                  /\ childIo'.stdout =
                        IF c.isRedirectOutput
                        THEN [to |-> "file", path |-> c.output]
                        ELSE IF c.isBackground THEN null ELSE Inherited]_vars

\* The child of a background command without redirection is running, both
\* its streams on the null device.
C13_Witness ==
    /\ pc = "FreeArgs"
    /\ newCmd.isBackground
    /\ ~newCmd.isRedirectInput
    /\ ~newCmd.isRedirectOutput
    /\ \E p \in Pids : Running(p) /\ procs[p].bg /\ procs[p].img = "prog"
    /\ childIo.stdin = [to |-> "file", path |-> DEV_NULL]
    /\ childIo.stdout = [to |-> "file", path |-> DEV_NULL]

\* The steps of main() from the return of RunCommand to the line read.
ToPrompt ==
    FreeArgs \/ ReapCheck \/ ReapOne \/ ReapNone \/ ReapClear \/ GetInput

\* C14: the fork of a background command leaves the child's pid in
\* childPids, reports it and returns to main(), every step of which up to
\* the reading of the next line can be taken whatever the child does; a
\* foreground child runs only while ExternalCommand waits for it, so no line
\* is read before it has ended.
C14_BackgroundNoWait ==
    /\ [][(pc = "RunCommand" /\ newCmd.isBackground
              /\ FreshPids' # FreshPids)
            => LET p == FirstOf(FreshPids) IN
                 /\ p \in TablePids(childPids')
                 /\ out' = Append(out, Msg("background pid is", p, 0))
                 /\ pc' = "FreeArgs"]_vars
    /\ [](pc \in {"FreeArgs", "ReapCheck", "ReapZombies", "ReapClear",
                  "GetInput"} => ENABLED ToPrompt)
    /\ [](\A p \in Pids : (Running(p) /\ ~procs[p].bg) => pc = "WaitFg")

C16_TableHoldsUnreaped ==
    pc = "GetInput" =>
        /\ \A k \in Slots :
              childPids[k] # 0 =>
                  /\ childPids[k] \in Pids
                  /\ procs[childPids[k]].state \in {"running", "zombie"}
        /\ \A k, m \in Slots :
              (childPids[k] # 0 /\ childPids[k] = childPids[m]) => k = m

\* At the prompt after a reaping, the table still full: one child running,
\* one ended and not yet reaped.
C16_Witness ==
    /\ pc = "GetInput"
    /\ FreeSlots(childPids) = {}
    /\ \E p \in Pids : procs[p].state = "reaped"
    /\ \E k \in Slots : Running(childPids[k])
    /\ \E k \in Slots : Zombie(childPids[k])

\* C17: the shell ends only from the loop of MyExit, which only the exit
\* built-in enters, or from a failed calloc() in ExpandPID while a line is
\* parsed; every other dispatch returns to main(), a child's failure and a
\* SIGTSTP leave the shell where it stands, and from the return of
\* RunCommand a step towards the next line read is always possible.
C17_OnlyExitEndsShell ==
    /\ [][(pc' = "Exited" /\ pc # "Exited")
            => \/ /\ pc = "MyExit"
                  /\ exitIdx > MAX_CHILDREN
                  /\ shellExit' = EXIT_SUCCESS
               \/ /\ pc = "ParseCommand"
                  /\ buf # <<>>
                  /\ shellExit' = EXIT_FAILURE]_vars
    /\ [][(pc' = "MyExit" /\ pc \notin {"MyExit", "MyExitWait"})
            => (pc = "RunCommand" /\ Dispatch(newCmd) = "exit")]_vars
    /\ [][(pc = "RunCommand" /\ Dispatch(newCmd) # "exit")
            => pc' \in {"RunCommand", "FreeArgs", "WaitFg"}]_vars
    /\ [][(pc = "WaitFg") => pc' \in {"WaitFg", "FgClear"}]_vars
    /\ [][(pc = "FgClear") => pc' \in {"FgClear", "FreeArgs"}]_vars
    /\ [](pc \in {"FreeArgs", "ReapCheck", "ReapZombies", "ReapClear",
                  "GetInput"} => ENABLED ToPrompt)
    /\ [](Alive => shellExit = -1)

\* The shell is at the prompt after a foreground command whose execvp()
\* failed, with a child reaped and a SIGTSTP delivered.
C17_Witness ==
    /\ pc = "GetInput"
    /\ lastFg = [st |-> ExitedRaw(EXIT_FAILURE), age |-> 2]
    /\ tstpParity = 1
    /\ \E p \in Pids : procs[p].state = "reaped"
    /\ Cardinality({p \in Pids : procs[p].state # "none"}) >= 2

\* C18: once GetInput has written the prompt and read the line, no deferred
\* mode-change notice is pending.
C18_NoPendingAfterPrompt ==
    pc = "ParseCommand" => (~backgroundIgnoreSet /\ ~backgroundUnignoreSet)

\* The parser the specification describes, on tokens already expanded: two
\* flags, each set by its operator and cleared by the token that follows.
RECURSIVE RefParse(_, _, _, _)
RefParse(toks, c, expectIn, expectOut) ==
    IF toks = <<>> THEN c
    ELSE LET t == Head(toks) IN
         IF expectIn
         THEN RefParse(Tail(toks), [c EXCEPT !.input = t], FALSE, expectOut)
         ELSE IF expectOut
         THEN RefParse(Tail(toks), [c EXCEPT !.output = t], expectIn, FALSE)
         ELSE IF t = INPUT
         THEN RefParse(Tail(toks), [c EXCEPT !.isRedirectInput = TRUE],
                       TRUE, expectOut)
         ELSE IF t = OUTPUT
         THEN RefParse(Tail(toks), [c EXCEPT !.isRedirectOutput = TRUE],
                       expectIn, TRUE)
         ELSE RefParse(Tail(toks), [c EXCEPT !.args = Append(@, t)],
                       expectIn, expectOut)

\* The record the specification describes for a line: the tokens consumed,
\* expanded, parsed, and a final argument "&" taken off.
RefCommand(line, p, ignoreBg) ==
    LET toks == [k \in 1..Len(Consumed(line)) |-> RefExpand(line[k], p)]
        c == RefParse(toks, EmptyCmd, FALSE, FALSE)
        n == Len(c.args)
    IN  IF n > 0 /\ c.args[n] = BACKGROUND
        THEN [c EXCEPT !.args = SubSeq(@, 1, n - 1),
                       !.isBackground = ~ignoreBg]
        ELSE c

\* C19: the record ParseCommand fills equals the one the two-flag machine of
\* the specification gives for the same tokens.
C19_ParserIsReference ==
    Parsed => newCmd = RefCommand(buf, pidStr, ignoreBackground)

\* C20: if the shell comes back to the prompt again and again, every child
\* that has ended is eventually reaped, whether or not another child ends.
C20_NoLostTermination ==
    ([]<>(pc = "GetInput"))
        => \A p \in Pids : (Zombie(p) ~> procs[p].state = "reaped")

(***************************************************************************)
(* The reaper's report, the table, the waiting flag, the handlers.         *)
(***************************************************************************)
\* The reaper has just reported that child p is done.
ReaperReports(p) ==
    /\ pc = "ReapZombies"
    /\ Zombie(p)
    /\ procs'[p].state = "reaped"
    /\ Len(out') = Len(out) + 1
    /\ out'[Len(out')].pid = p

\* C21: what the reaper reports for a background child it finds is the
\* number of the signal that killed it, or else the child's exit code
\* (0..255), never the raw wait status.
C21_ReaperReportsExitCode ==
    [][\A p \in Pids :
          ReaperReports(p) =>
             LET st == procs[p].status
                 m == out'[Len(out')]
             IN  IF WIFSIGNALED(st)
                 THEN m.msg = "done: terminated by signal"
                         /\ m.val = WTERMSIG(st)
                 ELSE m.msg = "done: exit value"
                         /\ m.val = WEXITSTATUS(st)
                         /\ m.val \in 0..255]_vars

\* ExternalCommand has just forked child p.
Forked(p) ==
    /\ pc = "RunCommand"
    /\ procs[p].state = "none"
    /\ procs'[p].state = "running"

\* Between the two tables only slot k differs.
OnlySlot(k) == \A j \in Slots \ {k} : childPids'[j] = childPids[j]

\* The messages of a step that reports no error.
NoErrorSaid ==
    \/ out' = out
    \/ /\ Len(out') = Len(out) + 1
       /\ SubSeq(out', 1, Len(out)) = out
       /\ out'[Len(out')].msg = "background pid is"

\* The pid the step took out of the table with RemoveChildPid, or 0.
RemovedPid ==
    IF pc = "WaitFg" /\ pc' = "FgClear" THEN pid
    ELSE IF \E p \in Pids : ReaperReports(p)
    THEN CHOOSE p \in Pids : ReaperReports(p)
    ELSE 0

\* C22: inserting a pid into a table with a free slot stores it in the free
\* slot of lowest index and changes no other slot; inserting into a full
\* table changes nothing and reports no error; removing a pid clears the one
\* slot that holds it, and removing a pid the table does not hold changes
\* nothing; the table never holds more than MAX_CHILDREN pids.
C22_TableOperations ==
    /\ [][\A p \in Pids :
             Forked(p) =>
                IF FreeSlots(childPids) = {}
                THEN childPids' = childPids /\ NoErrorSaid
                ELSE \E k \in FreeSlots(childPids) :
                        /\ \A j \in FreeSlots(childPids) : k <= j
                        /\ childPids'[k] = p
                        /\ OnlySlot(k)]_vars
    /\ [][RemovedPid # 0 =>
             IF RemovedPid \in TablePids(childPids)
             THEN \E k \in Slots :
                     /\ childPids[k] = RemovedPid
                     /\ childPids'[k] = 0
                     /\ OnlySlot(k)
                     /\ RemovedPid \notin TablePids(childPids')
             ELSE childPids' = childPids]_vars
    /\ [](/\ DOMAIN childPids = Slots
          /\ Cardinality({k \in Slots : childPids[k] # 0}) <= MAX_CHILDREN)

\* A foreground child was forked while the table was full, so that it was
\* never stored, and RemoveChildPid has just been called for it.
C22_Witness ==
    /\ pc = "FgClear"
    /\ procs[pid].state = "reaped"
    /\ FreeSlots(childPids) = {}
    /\ pid \notin TablePids(childPids)

\* The foreground branch of ExternalCommand, from AddChildPid to the
\* statement that clears foregroundChild.
FgBranch == pc \in {"WaitFg", "FgClear"}

\* C23: foregroundChild is TRUE only while the foreground child is in
\* childPids, between AddChildPid and RemoveChildPid; outside the foreground
\* branch (prompt, parser, built-ins, background launch, reaper) the flag is
\* FALSE and childPids holds no pid of a foreground child.
C23_WaitingFlagWindow ==
    /\ [](foregroundChild => (pc = "WaitFg" /\ pid \in TablePids(childPids)))
    /\ [](~FgBranch =>
            /\ ~foregroundChild
            /\ pid = 0
            /\ \A p \in TablePids(childPids) : Running(p) => procs[p].bg)
    /\ [][(pc = "WaitFg" /\ pc' # "WaitFg")
             => pid \notin TablePids(childPids')]_vars

\* The step is a delivery of SIGTSTP to the shell.
Delivered == tstpParity' # tstpParity

\* C24: each delivery of SIGTSTP flips ignoreBackground once and has one of
\* two effects: while foregroundChild is TRUE the flag of the notice of the
\* new mode is set and the handler writes nothing; otherwise the notice of
\* the new mode is written at once and no deferred flag is set.
C24_ToggleOneEffect ==
    [][Delivered =>
          /\ ignoreBackground' = ~ignoreBackground
          /\ IF foregroundChild
             THEN /\ out' = out
                  /\ IF ignoreBackground'
                     THEN backgroundIgnoreSet'
                             /\ UNCHANGED backgroundUnignoreSet
                     ELSE backgroundUnignoreSet'
                             /\ UNCHANGED backgroundIgnoreSet
             ELSE /\ out' = Append(out, Notice(ignoreBackground'))
                  /\ UNCHANGED <<backgroundIgnoreSet,
                                 backgroundUnignoreSet>>]_vars

\* A notice has been written since the prompt, and a delivery during the
\* wait for the foreground child was put off.
C24_Witness ==
    /\ pc = "WaitFg"
    /\ Notices(out) # {}
    /\ backgroundIgnoreSet \/ backgroundUnignoreSet

\* In the step a child ends, so that the shell's SIGCHLD handler runs.
ChildEnded == \E p \in Pids : Running(p) /\ procs'[p].state = "zombie"

\* C25: the handlers change flags only.  Where HandleSIGCHLD runs, nothing of
\* the shell changes but childTerminated; where HandleSIGTSTP runs, nothing
\* changes but ignoreBackground and the two flags of the deferred notices;
\* neither changes childPids, childStatus or the command, and neither reaps.
C25_HandlersOnlySetFlags ==
    [][(ChildEnded \/ Delivered) =>
          /\ UNCHANGED <<childPids, childStatus, newCmd, buf>>
          /\ \A p \in Pids :
                procs'[p].state = "reaped" => procs[p].state = "reaped"
          /\ (ChildEnded /\ pc' = pc) =>
                /\ childTerminated'
                /\ UNCHANGED <<ignoreBackground, backgroundIgnoreSet,
                               backgroundUnignoreSet, foregroundChild, pid,
                               exitIdx, shellExit, out>>
          /\ Delivered =>
                UNCHANGED <<childTerminated, foregroundChild, pid, pc,
                            procs, exitIdx, shellExit>>]_vars

\* Both handlers have run while the shell waits for a foreground child, with
\* a background child in the table and a status and a command to lose.
C25_Witness ==
    /\ pc = "WaitFg"
    /\ childTerminated
    /\ backgroundIgnoreSet \/ backgroundUnignoreSet
    /\ Cardinality(TablePids(childPids)) = 2
    /\ childStatus # 0
    /\ newCmd.args # <<>>

\* C26: a child that calls execvp() has SIGCHLD at its default, SIGTSTP
\* ignored, and SIGINT at its default exactly if the command is not a
\* background command; the shell ignores SIGINT.  So SIGINT ends no
\* background child and never the shell.
C26_InterruptOnlyForeground ==
    /\ [][\A p \in Pids :
             (Forked(p) /\ procs'[p].img # "openfail") =>
                /\ childIo'.sig.chld = "default"
                /\ childIo'.sig.tstp = "ignored"
                /\ (childIo'.sig.int = "default") <=> ~newCmd.isBackground
                /\ newCmd.isBackground => childIo'.sig.int = "ignored"]_vars
    /\ [](SetSignalHandlers.int = "ignored")
    /\ [][\A p \in Pids :
             (Running(p) /\ procs'[p].state = "zombie"
                 /\ procs'[p].status = SignaledRaw(SIGINT))
               => ~procs[p].bg]_vars
    /\ [](shellExit # 128 + SIGINT)

\* SIGINT has ended the foreground child the shell waits for, while a
\* background child goes on running.
C26_Witness ==
    /\ pc = "WaitFg"
    /\ Zombie(pid)
    /\ procs[pid].status = SignaledRaw(SIGINT)
    /\ childIo.sig.int = "default"
    /\ \E q \in Pids : Running(q) /\ procs[q].bg

\* C27: the code of the shell ends in every child in one of two ways, the
\* image replaced or an exit with a failure status; on no path does the child
\* go on as the parent does: a child that ends before or without a new image
\* ends by exit with a non-zero code, unless the SIGTERM of MyExit ends it
\* first, and nothing the parent owns (childPids, childStatus, the command)
\* changes when such a child ends.
C27_ChildNeverReturns ==
    /\ [][\A p \in Pids :
             Forked(p) =>
                LET b == ChildBranch(procs'[p].img) IN
                    /\ b.ends \in {"image", "exit"}
                    /\ b.ends = "image" => b.execvp
                    /\ b.ends = "exit" => b.code \in 1..255]_vars
    /\ [][\A p \in Pids :
             (Running(p) /\ procs[p].img \in {"execfail", "openfail"}
                 /\ procs'[p].state = "zombie")
               => /\ \/ procs'[p].status = SignaledRaw(SIGTERM)
                     \/ /\ WIFEXITED(procs'[p].status) = 1
                        /\ WEXITSTATUS(procs'[p].status) # EXIT_SUCCESS
                  /\ UNCHANGED <<childPids, childStatus, newCmd>>]_vars

\* One child runs its new image, one has ended after execvp() failed, and
\* one is on its way to a failed open().
C27_Witness ==
    \E p, q, r \in Pids :
       /\ Running(p) /\ procs[p].img = "prog"
       /\ Zombie(q) /\ procs[q].status = ExitedRaw(EXIT_FAILURE)
       /\ Running(r) /\ procs[r].img = "openfail"

\* C28: a child whose open() of a redirection target fails exits with a
\* non-zero code and never calls execvp(); the parent goes on as after any
\* child: a foreground parent leaves its wait, takes the child out of the
\* table, records a non-zero childStatus and goes on to the next prompt.
C28_OpenFailure ==
    /\ ~ChildBranch("openfail").execvp
    /\ [][\A p \in Pids :
             (Running(p) /\ procs[p].img = "openfail"
                 /\ procs'[p].state = "zombie")
               => \/ procs'[p].status = SignaledRaw(SIGTERM)
                  \/ /\ WIFEXITED(procs'[p].status) = 1
                     /\ WEXITSTATUS(procs'[p].status) # EXIT_SUCCESS]_vars
    /\ [][(pc = "FgClear" /\ childIo.branch = "openfail" /\ pc' # pc)
             => /\ pc' = "FreeArgs"
                /\ childStatus' # 0
                /\ ~foregroundChild'
                /\ pid \notin TablePids(childPids')
                /\ procs'[pid].state = "reaped"]_vars
    /\ [](childIo.branch = "openfail" =>
            /\ (pc = "WaitFg" /\ Zombie(pid)) => ENABLED WaitFg
            /\ pc = "FgClear" => ENABLED FgClear
            /\ pc = "FreeArgs" => ENABLED ToPrompt)

\* The shell has recorded the status of a foreground child that ended in a
\* failed open(), with a "<" that no path follows.
C28_Witness ==
    /\ pc = "FreeArgs"
    /\ childIo.branch = "openfail"
    /\ ~newCmd.isBackground
    /\ newCmd.isRedirectInput /\ newCmd.input = NULL
    /\ childStatus = 1

\* ExternalCommand returns without a child: fork() has failed.
ForkFailed ==
    /\ pc = "RunCommand"
    /\ Dispatch(newCmd) = "external"
    /\ pc' # pc
    /\ procs' = procs

\* C29: when fork() fails the command counts as not run: childPids,
\* childStatus, foregroundChild and ignoreBackground stay as they are, the
\* shell waits for nobody and goes on to the next prompt.
C29_ForkFailureNoEffect ==
    /\ [][ForkFailed =>
             /\ UNCHANGED <<childPids, childStatus, foregroundChild,
                            ignoreBackground, childTerminated, out>>
             /\ pc' = "FreeArgs"]_vars
    /\ [](pc = "FreeArgs" => ENABLED ToPrompt)

\* fork() has failed for a command, in foreground-only mode, with a child in
\* the table and a status recorded.
C29_Witness ==
    /\ pc = "FreeArgs"
    /\ Dispatch(newCmd) = "external"
    /\ childIo = NoIo
    /\ TablePids(childPids) # {}
    /\ childStatus # 0
    /\ ignoreBackground

\* C30: when a turn of the loop of main() starts, every string of the
\* command of the turn before has been released exactly once: none is still
\* allocated, and none was released twice.
C30_StringsReleased ==
    /\ pc = "GetInput" => heap.cnt = <<>>
    /\ \A k \in 1..Len(heap.cnt) : heap.cnt[k] <= 1

\* The notices GetInput still has to print.
PendingNotices ==
    (IF backgroundIgnoreSet THEN 1 ELSE 0)
        + (IF backgroundUnignoreSet THEN 1 ELSE 0)

\* The notice shown last among those in the output.
LastNotice(o) ==
    o[CHOOSE i \in Notices(o) : \A j \in Notices(o) : j <= i]

\* GetInput has written the prompt, and a notice before it if one was due.
AtPrompt == pc = "ParseCommand"

\* C31: when the shell is at the prompt and no notice is waiting to be
\* printed, the notice shown last names the mode the shell is in; and the
\* notices shown are as many as the SIGTSTP received: every delivery either
\* writes its notice or adds one to those GetInput still has to print.  The
\* first part is stated for the prompts whose output holds a notice.
C31_NoticesFollowMode ==
    /\ [](AtPrompt /\ PendingNotices = 0 /\ Notices(out) # {}
             => LastNotice(out) = Notice(ignoreBackground))
    /\ [][Delivered =>
             \/ Notices(out') # Notices(out)
             \/ PendingNotices' = PendingNotices + 1]_vars

\* The "$$" the loop of ExpandPID replaces in arg from argIdx on.
RECURSIVE PidVars(_, _)
PidVars(arg_, argIdx) ==
    IF argIdx > Len(arg_) THEN 0
    ELSE IF arg_[argIdx] = "$" /\ Ch(arg_, argIdx + 1) = "$"
         THEN 1 + PidVars(arg_, argIdx + 2)
         ELSE PidVars(arg_, argIdx + 1)

Max(a, b) == IF a > b THEN a ELSE b

\* The bytes of lp_newArg the loop reaches, counted from its start: the
\* assignment writes the byte at newArgIdx, strncat() writes pidLen bytes
\* and a terminator after the string, which ends at newArgIdx as long as
\* every write so far was inside the allocation.
RECURSIVE WriteLoop(_, _, _, _, _)
WriteLoop(arg_, argIdx, newArgIdx, pidLen, top) ==
    IF argIdx > Len(arg_) THEN top
    ELSE IF arg_[argIdx] = "$" /\ Ch(arg_, argIdx + 1) = "$"
         THEN WriteLoop(arg_, argIdx + 2, newArgIdx + pidLen, pidLen,
                        Max(top, newArgIdx + pidLen + 1))
         ELSE WriteLoop(arg_, argIdx + 1, newArgIdx + 1, pidLen,
                        Max(top, newArgIdx + 1))

BytesWritten(arg_, p) == WriteLoop(arg_, 1, 0, Len(p), 0)

\* C32: when ExpandPID returns for a token of n >= 1 characters, k pairs
\* "$$" and m others, and a pid string of L characters: the expansion has
\* k * L + m characters, the ( n / 2 ) * L + 1 bytes allocated hold them and
\* the terminator, and the loop writes no byte outside the allocation.
C32_AllocationSuffices ==
    pc = "Expanded" /\ Len(arg) >= 1 =>
        LET e == ExpandPID(arg, pidStr)
            L == Len(pidStr)
            k == PidVars(arg, 1)
            m == Len(arg) - 2 * k
        IN  /\ Len(e.str) = k * L + m
            /\ e.size >= k * L + m + 1
            /\ Terminated(e)
            /\ BytesWritten(arg, pidStr) <= e.size

\* args[] of the command has a slot left that holds NULL: execvp() and any
\* other reader that stops at NULL stay inside the MAX_ARGS slots.
ArgsTerminated(c) == Len(c.args) <= MAX_ARGS - 1

\* C33: whatever the line, ParseCommand hands at most MAX_ARGS tokens to
\* ExpandPID, the first ones, and pays no attention to the others; and the
\* argument vector it leaves holds at most MAX_ARGS - 1 arguments, so that a
\* NULL slot ends it inside its MAX_ARGS slots.
C33_ArgsTerminated ==
    Parsed =>
        /\ Len(heap.cnt) = Min(Len(buf), MAX_ARGS)
        /\ \E junk \in JunkChoices(buf, pidStr) :
              newCmd = ParseCommand(SubSeq(buf, 1, Len(heap.cnt)), pidStr,
                                    junk, ignoreBackground)
        /\ ArgsTerminated(newCmd)

====
